---- MODULE Spec2Model ----
(***************************************************************************)
(* Model of backend/app.py: the /upload and /chat handlers over the        *)
(* process-wide session state (BOOK_TEXT, BOOK_CHUNKS, BOOK_EMBEDDINGS,    *)
(* CHAT_HISTORY).                                                          *)
(*                                                                         *)
(* Strings are sequences of one-character strings (fixed literals of the   *)
(* source are kept as single tokens).  Python list indices are 0-based;    *)
(* the model's sequences are 1-based, so index i of the source is i+1.     *)
(*                                                                         *)
(* Both handlers are `async def`: they run on one event loop and give the  *)
(* loop up only at an `await`.  The only await of the file is line 128     *)
(* (`await file.read()`); everything else, `requests.get` and `time.sleep` *)
(* included, blocks the loop.  A handler's steps between awaits are        *)
(* therefore never interleaved with another handler's.                     *)
(***************************************************************************)
EXTENDS Integers, Sequences, FiniteSets, TLC

VARIABLES
    BOOK_TEXT,          \* app.py:41
    BOOK_CHUNKS,        \* app.py:42
    BOOK_EMBEDDINGS,    \* app.py:43
    CHAT_HISTORY,       \* app.py:44  character -> sequence of [user, ai]
    upload_pc,          \* position of the /upload request in flight
    extracted_text,     \* upload_file local, app.py:124
    embedded,           \* the list being built by the comprehension of line 140
    final_characters,   \* upload_file local, app.py:152
    upload_error,       \* the exception that ended the upload request ("" if none)
    upload_before,      \* the globals as they were when upload began to run after its await
    chat_pc,            \* position of the /chat request in flight
    chat,               \* the ChatRequest: [character, message]
    relevant_context,   \* chat_with_character local, app.py:168
    history,            \* chat_with_character local, app.py:169
    prompt,             \* chat_with_character local, app.py:174
    reply,              \* chat_with_character local, app.py:191
    i,                  \* loop variable of line 194
    delay,              \* chat_with_character local, app.py:193 (in ticks)
    slept,              \* the arguments of the time.sleep calls of this request
    generated,          \* the outcomes of the generate_content calls of this request
    embed_calls,        \* embed_text calls made by this chat request
    chat_error,         \* the exception that ended the chat request ("" if none)
    chat_before,        \* CHAT_HISTORY as it was when the chat request began
    probe_pc,           \* position of a direct semantic_search call
    probe,              \* its arguments: [query, top_k]
    probe_result        \* its outcome

session_vars == <<BOOK_TEXT, BOOK_CHUNKS, BOOK_EMBEDDINGS, CHAT_HISTORY>>
upload_vars == <<upload_pc, extracted_text, embedded, final_characters, upload_error, upload_before>>
chat_vars == <<chat_pc, chat, relevant_context, history, prompt, reply, i, delay, slept, generated, embed_calls, chat_error, chat_before>>
probe_vars == <<probe_pc, probe, probe_result>>
vars == <<session_vars, upload_vars, chat_vars, probe_vars>>

(***************************************************************************)
(* Bounds of the model.                                                    *)
(***************************************************************************)
\* longest document text of the general specification
MaxTextLen == 3
\* stands for size=2000 of split_into_chunks (app.py:73), scaled to the texts above
ChunkSize == 2
\* turns the history may hold in the general specification
MaxTurns == 2
\* ticks per second: the resolution at which random.uniform(0, 1) is drawn
JitterRes == 2
\* longest document text of the search specification
MaxSearchLen == 4
\* largest top_k of the search specification
MaxTopK == 3
\* turns the single character's log may hold in the history specification
MaxWindowTurns == 7

(***************************************************************************)
(* Program constants.                                                      *)
(***************************************************************************)
\* app.py:192  retries = 3
retries_off_by_one == 3 + 1
retries == 3
\* app.py:193  delay = 1
InitialDelay == 1
\* app.py:171  [-5:]
HistoryWindow == 5
\* app.py:168  top_k=3
ChatTopK == 3
\* app.py:156  extracted_text[:500]
PreviewLen == 500

Min(a, b) == IF a < b THEN a ELSE b
Max(a, b) == IF a > b THEN a ELSE b

SeqsUpTo(S, n) == UNION {[1..k -> S] : k \in 0..n}

\* app.py:166
Guidance == <<"Please upload a book or website first.">>
\* app.py:211 (WARN stands for the warning glyph of the source)
Unavailable == <<"(WARN Error: The model is currently unavailable after multiple retries.)">>
\* app.py:208
ErrorReply(e) == <<"(WARN Error talking to model: ">> \o e \o <<")">>
\* app.py:202  the text searched for in str(e)
RateLimitCode == <<"4", "2", "9">>

(***************************************************************************)
(* Pure helpers.                                                           *)
(***************************************************************************)
\* Python's `needle in text` for strings
Contains(text, needle) ==
    \E s \in 0..(Len(text) - Len(needle)) : SubSeq(text, s + 1, s + Len(needle)) = needle

is_rate_limit_always(e) == TRUE
\* app.py:202  "429" in str(e)
is_rate_limit(e) == Contains(e, RateLimitCode)

\* The characters str.strip() removes (those str.isspace() accepts): blank, tab, line
\* feed, carriage return, form feed, then U+000B, U+001C to U+001F, U+0085, U+00A0
\* and U+1680 written as the characters themselves.  The other whitespace of Unicode
\* (U+2000 to U+200A, U+2028, U+2029, U+202F, U+205F, U+3000) cannot be written in a
\* string of this module and is outside the alphabet of the model.
Whitespace == {" ", "\t", "\n", "\r", "\f", "", "", "", "", "", "", " ", " "}
IsSpace(c) == c \in Whitespace
RECURSIVE LStrip(_)
LStrip(s) == IF s # <<>> /\ IsSpace(Head(s)) THEN LStrip(Tail(s)) ELSE s
RECURSIVE RStrip(_)
RStrip(s) == IF s # <<>> /\ IsSpace(s[Len(s)]) THEN RStrip(SubSeq(s, 1, Len(s) - 1)) ELSE s
\* str.strip() of line 198
Strip(s) == RStrip(LStrip(s))

\* app.py:73-74  [text[i:i+size] for i in range(0, len(text), size)]
split_into_chunks(text, size) ==
    [j \in 1..((Len(text) + size - 1) \div size) |->
        SubSeq(text, (j - 1) * size + 1, Min(j * size, Len(text)))]

Count(text, c) == Cardinality({j \in 1..Len(text) : text[j] = c})
\* app.py:77-79.  The encoder is an external library; it is a deterministic function
\* of the text, represented here by the vector of letter counts.
embed_text(text) == <<Count(text, "a"), Count(text, "b")>>

Dot(u, v) == u[1] * v[1] + u[2] * v[2]
\* sklearn cosine_similarity of two vectors with non-negative entries, as the exact
\* fraction <<numerator, denominator>> of its square; a zero vector has similarity 0
CosineSq(q, e) ==
    IF Dot(q, q) * Dot(e, e) = 0 THEN <<0, 1>>
    ELSE <<Dot(q, e) * Dot(q, e), Dot(q, q) * Dot(e, e)>>
SimLess(a, b) == a[1] * b[2] < b[1] * a[2]
\* app.py:85
cosine_similarity(q_emb, embeddings) ==
    [j \in 1..Len(embeddings) |-> CosineSq(q_emb, embeddings[j])]

IndexOrders(n) == {p \in [1..n -> 1..n] : \A a, b \in 1..n : a # b => p[a] # p[b]}
\* numpy argsort (default kind, not stable): every ascending order of the indices
argsort(sims) ==
    {p \in IndexOrders(Len(sims)) :
        \A a, b \in 1..Len(sims) : a < b => ~SimLess(sims[p[b]], sims[p[a]])}
\* Python s[-k:] for k >= 0 (-0 is 0: the whole sequence)
TailSlice(s, k) ==
    IF k = 0 \/ k >= Len(s) THEN s ELSE SubSeq(s, Len(s) - k + 1, Len(s))
\* Python s[::-1]
Reverse(s) == [j \in 1..Len(s) |-> s[Len(s) + 1 - j]]

\* app.py:81-87.  The outcomes of semantic_search(query, top_k); embed_ok says whether
\* the encoder answers.
semantic_search(query, top_k, embed_ok) ==
    IF BOOK_EMBEDDINGS = <<>>
    THEN {[error |-> "", chunks |-> <<>>, embed_calls |-> 0]}
    ELSE IF ~embed_ok
    THEN {[error |-> "EmbeddingError", chunks |-> <<>>, embed_calls |-> 1]}
    ELSE LET sims == cosine_similarity(embed_text(query), BOOK_EMBEDDINGS)
         IN  {LET top_ids == Reverse(TailSlice(order, top_k))
              IN  IF \E j \in 1..Len(top_ids) : top_ids[j] > Len(BOOK_CHUNKS)
                  THEN [error |-> "IndexError", chunks |-> <<>>, embed_calls |-> 1]
                  ELSE [error |-> "",
                        chunks |-> [j \in 1..Len(top_ids) |-> BOOK_CHUNKS[top_ids[j]]],
                        embed_calls |-> 1]
              : order \in argsort(sims)}

last_turns_short(log) == SubSeq(log, Max(1, Len(log) - HistoryWindow + 2), Len(log))
\* app.py:171  [...][-5:]
last_turns(log) == SubSeq(log, Max(1, Len(log) - HistoryWindow + 1), Len(log))

\* app.py:171  CHAT_HISTORY.get(chat.character, [])
history_get(character) ==
    IF character \in DOMAIN CHAT_HISTORY THEN CHAT_HISTORY[character] ELSE <<>>

\* app.py:170  f"User: {m['user']}\n{chat.character}: {m['ai']}"
render_turn(character, m) ==
    <<"User: ">> \o m.user \o <<"\n", character, ": ">> \o m.ai
RECURSIVE Join(_)
\* "\n".join(lines)
Join(lines) ==
    IF lines = <<>> THEN <<>>
    ELSE IF Len(lines) = 1 THEN lines[1]
    ELSE lines[1] \o <<"\n">> \o Join(Tail(lines))
\* app.py:169-172
render_history(character, turns) ==
    Join([j \in 1..Len(turns) |-> render_turn(character, turns[j])])

\* app.py:174-189
build_prompt(character, hist, context, message) ==
    [character |-> character, history |-> hist, relevant_context |-> context, message |-> message]

no_session_never(text) == FALSE
\* app.py:165  not BOOK_TEXT
no_session(text) == text = <<>>

should_append_always(r) == TRUE
\* app.py:214  if reply
should_append(r) == r # <<>>

reset_history_keeping(characters) ==
    [c \in characters |-> IF c \in DOMAIN CHAT_HISTORY THEN CHAT_HISTORY[c] ELSE <<>>]
\* app.py:154  {c: [] for c in final_characters}
reset_history(characters) == [c \in characters |-> <<>>]

(***************************************************************************)
(* The environment of a specification: the inputs the requests are drawn   *)
(* from and the answers of the external collaborators.                     *)
(***************************************************************************)
Alphabet == {"a", "b"}
Names == {"Alice", "Bob"}
TextReply(raw) == [kind |-> "text", val |-> raw]
Raised(detail) == [kind |-> "error", val |-> detail]
GenOutcomes ==
    {TextReply(<<" ", "\n">>), TextReply(<<"\t", "h", "i", "\n">>),
     Raised(<<"e", "4", "2", "9">>), Raised(<<"5", "0", "0">>)}

MainEnv ==
    [texts |-> SeqsUpTo({"a"}, MaxTextLen),
     characters |-> Names,
     detected |-> SUBSET Names,
     messages |-> {<<"a">>},
     outcomes |-> GenOutcomes,
     answers |-> BOOLEAN,
     max_turns |-> MaxTurns]

(***************************************************************************)
(* Initial state: the module-level assignments of app.py:41-44, no request *)
(* in flight.                                                              *)
(***************************************************************************)
NoRequest == [character |-> "", message |-> <<>>]
NoPrompt == build_prompt("", <<>>, <<>>, <<>>)
NoProbe == [query |-> <<>>, top_k |-> 0]
NoResult == [error |-> "", chunks |-> <<>>, embed_calls |-> 0]
Session == [text |-> BOOK_TEXT, chunks |-> BOOK_CHUNKS, embeddings |-> BOOK_EMBEDDINGS, history |-> CHAT_HISTORY]
NoSession == [text |-> <<>>, chunks |-> <<>>, embeddings |-> <<>>, history |-> <<>>]

UploadIdle ==
    /\ upload_pc = "idle"
    /\ extracted_text = <<>>
    /\ embedded = <<>>
    /\ final_characters = {}
    /\ upload_error = ""
    /\ upload_before = NoSession

ChatIdle ==
    /\ chat_pc = "idle"
    /\ chat = NoRequest
    /\ relevant_context = <<>>
    /\ history = <<>>
    /\ prompt = NoPrompt
    /\ reply = <<>>
    /\ i = 0
    /\ delay = 0
    /\ slept = <<>>
    /\ generated = <<>>
    /\ embed_calls = 0
    /\ chat_error = ""
    /\ chat_before = <<>>

ProbeIdle ==
    /\ probe_pc = "idle"
    /\ probe = NoProbe
    /\ probe_result = NoResult

Init ==
    /\ BOOK_TEXT = <<>>
    /\ BOOK_CHUNKS = <<>>
    /\ BOOK_EMBEDDINGS = <<>>
    /\ CHAT_HISTORY = <<>>
    /\ UploadIdle
    /\ ChatIdle
    /\ ProbeIdle

\* the event loop runs no handler: none in flight, or the upload is suspended at line 128
LoopFree == chat_pc = "idle" /\ upload_pc \in {"idle", "read"}

(***************************************************************************)
(* POST /upload, app.py:120-157.                                           *)
(***************************************************************************)
\* app.py:126-134: which of file, url or neither the request carries
UploadBegin(source) ==
    /\ upload_pc = "idle"
    /\ LoopFree
    /\ upload_pc' = CASE source = "file" -> "read"
                      [] source = "url" -> "extract"
                      [] OTHER -> "no_input"
    /\ UNCHANGED <<extracted_text, embedded, final_characters, upload_error, upload_before>>
    /\ UNCHANGED <<session_vars, chat_vars, probe_vars>>

\* app.py:128: `await file.read()` completes and the handler takes the loop again
UploadRead ==
    /\ upload_pc = "read"
    /\ chat_pc = "idle"
    /\ upload_pc' = "extract"
    /\ UNCHANGED <<extracted_text, embedded, final_characters, upload_error, upload_before>>
    /\ UNCHANGED <<session_vars, chat_vars, probe_vars>>

\* app.py:130/132: the text extractor answers with a text, or raises
UploadExtract(text, ok) ==
    /\ upload_pc = "extract"
    /\ upload_before' = Session
    /\ IF ok
       THEN /\ extracted_text' = text
            /\ upload_pc' = "assign"
            /\ UNCHANGED upload_error
       ELSE /\ upload_pc' = "raised"
            /\ upload_error' = "ExtractionError"
            /\ UNCHANGED extracted_text
    /\ UNCHANGED <<embedded, final_characters>>
    /\ UNCHANGED <<session_vars, chat_vars, probe_vars>>

\* app.py:136-137
UploadAssign ==
    /\ upload_pc = "assign"
    /\ BOOK_TEXT' = extracted_text
    /\ BOOK_CHUNKS' = split_into_chunks(BOOK_TEXT', ChunkSize)
    /\ upload_pc' = "embed"
    /\ UNCHANGED <<BOOK_EMBEDDINGS, CHAT_HISTORY>>
    /\ UNCHANGED <<extracted_text, embedded, final_characters, upload_error, upload_before>>
    /\ UNCHANGED <<chat_vars, probe_vars>>

\* app.py:140: one iteration of the comprehension; embed_text answers or raises
UploadEmbedChunk(ok) ==
    /\ upload_pc = "embed"
    /\ Len(embedded) < Len(BOOK_CHUNKS)
    /\ IF ok
       THEN /\ embedded' = Append(embedded, embed_text(BOOK_CHUNKS[Len(embedded) + 1]))
            /\ UNCHANGED <<upload_pc, upload_error>>
       ELSE /\ upload_pc' = "raised"
            /\ upload_error' = "EmbeddingError"
            /\ UNCHANGED embedded
    /\ UNCHANGED <<extracted_text, final_characters, upload_before>>
    /\ UNCHANGED <<session_vars, chat_vars, probe_vars>>

\* app.py:140: the comprehension is complete and its list is assigned
UploadStoreEmbeddings ==
    /\ upload_pc = "embed"
    /\ Len(embedded) = Len(BOOK_CHUNKS)
    /\ BOOK_EMBEDDINGS' = embedded
    /\ upload_pc' = "detect"
    /\ UNCHANGED <<BOOK_TEXT, BOOK_CHUNKS, CHAT_HISTORY>>
    /\ UNCHANGED <<extracted_text, embedded, final_characters, upload_error, upload_before>>
    /\ UNCHANGED <<chat_vars, probe_vars>>

\* app.py:143-152: spaCy and filter_character_list answer with the (distinct) names,
\* or spaCy raises (it refuses a text longer than its max_length)
UploadDetect(names, ok) ==
    /\ upload_pc = "detect"
    /\ IF ok
       THEN /\ final_characters' = names
            /\ upload_pc' = "reset"
            /\ UNCHANGED upload_error
       ELSE /\ upload_pc' = "raised"
            /\ upload_error' = "DetectionError"
            /\ UNCHANGED final_characters
    /\ UNCHANGED <<extracted_text, embedded, upload_before>>
    /\ UNCHANGED <<session_vars, chat_vars, probe_vars>>

\* app.py:154
UploadReset ==
    /\ upload_pc = "reset"
    /\ CHAT_HISTORY' = reset_history(final_characters)
    /\ upload_pc' = "respond"
    /\ UNCHANGED <<BOOK_TEXT, BOOK_CHUNKS, BOOK_EMBEDDINGS>>
    /\ UNCHANGED <<extracted_text, embedded, final_characters, upload_error, upload_before>>
    /\ UNCHANGED <<chat_vars, probe_vars>>

\* app.py:156-157: the UploadResponse handed back at "respond" (line 134 at "no_input")
upload_response ==
    [text_preview |-> SubSeq(extracted_text, 1, Min(PreviewLen, Len(extracted_text))),
     total_chars |-> Len(extracted_text),
     characters |-> final_characters]

\* the request ends: the response of line 134 or 157 is sent, or the exception leaves the handler
UploadFinish ==
    /\ upload_pc \in {"respond", "no_input", "raised"}
    /\ upload_pc' = "idle"
    /\ extracted_text' = <<>>
    /\ embedded' = <<>>
    /\ final_characters' = {}
    /\ upload_error' = ""
    /\ upload_before' = NoSession
    /\ UNCHANGED <<session_vars, chat_vars, probe_vars>>

(***************************************************************************)
(* POST /chat, app.py:162-217.                                             *)
(***************************************************************************)
RECURSIVE TurnsIn(_, _)
TurnsIn(h, names) ==
    IF names = {} THEN 0
    ELSE LET c == CHOOSE x \in names : TRUE
         IN  Len(h[c]) + TurnsIn(h, names \ {c})
\* the turns the whole history holds
TotalTurns == TurnsIn(CHAT_HISTORY, DOMAIN CHAT_HISTORY)

\* app.py:163-166: the request arrives; without a session the guidance reply is
\* returned at once.  cap bounds the turns the history holds when a request starts.
ChatBegin(character, message, cap) ==
    /\ chat_pc = "idle"
    /\ LoopFree
    /\ TotalTurns < cap
    /\ chat' = [character |-> character, message |-> message]
    /\ chat_before' = CHAT_HISTORY
    /\ IF no_session(BOOK_TEXT)
       THEN /\ reply' = Guidance
            /\ chat_pc' = "respond"
       ELSE /\ chat_pc' = "search"
            /\ UNCHANGED reply
    /\ UNCHANGED <<relevant_context, history, prompt, i, delay, slept, generated, embed_calls, chat_error>>
    /\ UNCHANGED <<session_vars, upload_vars, probe_vars>>

\* app.py:168-193: semantic_search, then the history, the prompt and the loop's
\* initial values.  An exception of semantic_search leaves the handler.
ChatSearch(embed_ok) ==
    /\ chat_pc = "search"
    /\ \E found \in semantic_search(chat.message, ChatTopK, embed_ok) :
        /\ embed_calls' = found.embed_calls
        /\ IF found.error # ""
           THEN /\ chat_pc' = "raised"
                /\ chat_error' = found.error
                /\ UNCHANGED <<relevant_context, history, prompt, reply, i, delay>>
           ELSE /\ relevant_context' = found.chunks
                /\ history' = render_history(chat.character, last_turns(history_get(chat.character)))
                /\ prompt' = build_prompt(chat.character, history', relevant_context', chat.message)
                /\ reply' = <<>>
                /\ i' = 0
                /\ delay' = InitialDelay * JitterRes
                /\ chat_pc' = "generate"
                /\ UNCHANGED chat_error
    /\ UNCHANGED <<chat, slept, generated, chat_before>>
    /\ UNCHANGED <<session_vars, upload_vars, probe_vars>>

\* app.py:194-211: one iteration of the retry loop.  outcome is what generate_content
\* (or response.text) does; jitter is random.uniform(0, 1) in ticks.
ChatGenerate(outcome, jitter) ==
    /\ chat_pc = "generate"
    /\ i < retries
    /\ generated' = Append(generated, outcome)
    /\ IF outcome.kind = "text"
       THEN /\ reply' = Strip(outcome.val)
            /\ chat_pc' = "append"
            /\ UNCHANGED <<i, delay, slept>>
       ELSE IF is_rate_limit(outcome.val)
       THEN /\ slept' = Append(slept, delay)
            /\ delay' = delay * 2 + jitter
            /\ IF i + 1 < retries
               THEN /\ i' = i + 1
                    /\ UNCHANGED <<reply, chat_pc>>
               ELSE /\ reply' = Unavailable
                    /\ chat_pc' = "append"
                    /\ UNCHANGED i
       ELSE /\ reply' = ErrorReply(outcome.val)
            /\ chat_pc' = "append"
            /\ UNCHANGED <<i, delay, slept>>
    /\ UNCHANGED <<chat, relevant_context, history, prompt, embed_calls, chat_error, chat_before>>
    /\ UNCHANGED <<session_vars, upload_vars, probe_vars>>

\* app.py:214-215
ChatAppend ==
    /\ chat_pc = "append"
    /\ IF ~should_append(reply)
       THEN /\ chat_pc' = "respond"
            /\ UNCHANGED <<CHAT_HISTORY, chat_error>>
       ELSE IF chat.character \notin DOMAIN CHAT_HISTORY
       THEN /\ chat_pc' = "raised"
            /\ chat_error' = "KeyError"
            /\ UNCHANGED CHAT_HISTORY
       ELSE /\ CHAT_HISTORY' = [CHAT_HISTORY EXCEPT ![chat.character] =
                                   Append(@, [user |-> chat.message, ai |-> reply])]
            /\ chat_pc' = "respond"
            /\ UNCHANGED chat_error
    /\ UNCHANGED <<BOOK_TEXT, BOOK_CHUNKS, BOOK_EMBEDDINGS>>
    /\ UNCHANGED <<chat, relevant_context, history, prompt, reply, i, delay, slept, generated, embed_calls, chat_before>>
    /\ UNCHANGED <<upload_vars, probe_vars>>

\* app.py:166/217: the ChatResponse handed back at "respond"
chat_response == [reply |-> reply]

\* the request ends: the response is sent, or the exception leaves the handler
ChatFinish ==
    /\ chat_pc \in {"respond", "raised"}
    /\ chat_pc' = "idle"
    /\ chat' = NoRequest
    /\ relevant_context' = <<>>
    /\ history' = <<>>
    /\ prompt' = NoPrompt
    /\ reply' = <<>>
    /\ i' = 0
    /\ delay' = 0
    /\ slept' = <<>>
    /\ generated' = <<>>
    /\ embed_calls' = 0
    /\ chat_error' = ""
    /\ chat_before' = <<>>
    /\ UNCHANGED <<session_vars, upload_vars, probe_vars>>

(***************************************************************************)
(* The general specification.                                              *)
(***************************************************************************)
Requests(e) ==
    \/ \E source \in {"file", "url", "none"} : UploadBegin(source)
    \/ UploadRead
    \/ \E text \in e.texts, ok \in e.answers : UploadExtract(text, ok)
    \/ UploadAssign
    \/ \E ok \in e.answers : UploadEmbedChunk(ok)
    \/ UploadStoreEmbeddings
    \/ \E names \in e.detected, ok \in e.answers : UploadDetect(names, ok)
    \/ UploadReset
    \/ UploadFinish
    \/ \E character \in e.characters, message \in e.messages : ChatBegin(character, message, e.max_turns)
    \/ \E ok \in e.answers : ChatSearch(ok)
    \/ \E outcome \in e.outcomes, jitter \in 0..(JitterRes - 1) : ChatGenerate(outcome, jitter)
    \/ ChatAppend
    \/ ChatFinish

Next == Requests(MainEnv)

Spec == Init /\ [][Next]_vars

(***************************************************************************)
(* The history specification: the same requests, one character and one     *)
(* document, with a log long enough for the window of line 171 to cut it.  *)
(***************************************************************************)
HistoryEnv ==
    [texts |-> {<<"a">>},
     characters |-> {"Alice"},
     detected |-> {{"Alice"}},
     messages |-> {<<"a">>, <<"b">>},
     outcomes |-> {TextReply(<<"h", "i", "\n">>)},
     answers |-> {TRUE},
     max_turns |-> MaxWindowTurns + 1]

NextHistory == Requests(HistoryEnv)

SpecHistory == Init /\ [][NextHistory]_vars

(***************************************************************************)
(* The search specification: semantic_search called directly, with any     *)
(* top_k, on the index a successful upload of a text has built.            *)
(***************************************************************************)
InitSearch ==
    /\ \E text \in SeqsUpTo(Alphabet, MaxSearchLen) :
        /\ BOOK_TEXT = text
        /\ BOOK_CHUNKS = split_into_chunks(text, ChunkSize)
        /\ BOOK_EMBEDDINGS = [j \in 1..Len(split_into_chunks(text, ChunkSize)) |->
                                 embed_text(split_into_chunks(text, ChunkSize)[j])]
    /\ CHAT_HISTORY = <<>>
    /\ UploadIdle
    /\ ChatIdle
    /\ ProbeIdle

\* app.py:81-87, called as semantic_search(query, top_k)
ProbeCall(query, top_k, embed_ok) ==
    /\ probe_pc = "idle"
    /\ probe' = [query |-> query, top_k |-> top_k]
    /\ probe_result' \in semantic_search(query, top_k, embed_ok)
    /\ probe_pc' = "done"
    /\ UNCHANGED <<session_vars, upload_vars, chat_vars>>

\* the call has returned
ProbeReturn ==
    /\ probe_pc = "done"
    /\ probe_pc' = "idle"
    /\ probe' = NoProbe
    /\ probe_result' = NoResult
    /\ UNCHANGED <<session_vars, upload_vars, chat_vars>>

NextSearch ==
    \/ \E query \in SeqsUpTo(Alphabet, 1), top_k \in 0..MaxTopK, ok \in BOOLEAN : ProbeCall(query, top_k, ok)
    \/ ProbeReturn

SpecSearch == InitSearch /\ [][NextSearch]_vars

(***************************************************************************)
(* Properties.                                                             *)
(***************************************************************************)
LogOf(h, character) == IF character \in DOMAIN h THEN h[character] ELSE <<>>
RateLimited(outcome) == outcome.kind = "error" /\ Contains(outcome.val, RateLimitCode)
OtherError(outcome) == outcome.kind = "error" /\ ~Contains(outcome.val, RateLimitCode)
AllRateLimited == generated # <<>> /\ \A j \in 1..Len(generated) : RateLimited(generated[j])
LoopEnded == chat_pc \in {"append", "respond", "raised"}

\* C1: an upload that fails in text extraction or in embedding a chunk leaves the
\* text, the chunks, the embeddings and the history as they were before it ran.
UploadAllOrNothing ==
    (upload_pc = "raised" /\ upload_error \in {"ExtractionError", "EmbeddingError"})
        => Session = upload_before

\* C2: with an active session no chat request ends in an error raised by the
\* character lookup or the generation client, whatever the character name
\* (failures of the retrieval step are left aside).
ChatAlwaysReplies ==
    (chat_pc = "raised" /\ BOOK_TEXT # <<>>) => chat_error # "KeyError"

\* C3: when every generation call fails with a rate-limit error, the request makes
\* exactly 3 attempts and the loop leaves the fixed "unavailable" reply; a request
\* never makes a 4th attempt.
RateLimitGivesThreeAttempts ==
    /\ Len(generated) <= 3
    /\ (AllRateLimited /\ chat_pc = "generate") => Len(generated) < 3
    /\ (AllRateLimited /\ LoopEnded) => (Len(generated) = 3 /\ reply = Unavailable)
    /\ (AllRateLimited /\ chat_pc = "respond") => chat_response = [reply |-> Unavailable]

RateLimitThreeAttemptsReached ==
    /\ chat_pc = "respond"
    /\ AllRateLimited
    /\ Len(generated) = 3
    /\ Len(slept) = 3
    /\ chat_response.reply = Unavailable

\* C4: an attempt that fails with an error that is not a rate-limit error is the
\* last attempt of its request, whichever attempt it is: the loop has ended, no
\* sleep was made for it, and the reply is the marked error reply with the detail.
OtherErrorEndsLoop ==
    \A j \in 1..Len(generated) :
        OtherError(generated[j]) =>
            /\ j = Len(generated)
            /\ LoopEnded
            /\ Len(slept) = j - 1
            /\ reply = <<"(WARN Error talking to model: ">> \o generated[j].val \o <<")">>

OtherErrorOnSecondAttempt ==
    /\ chat_pc = "respond"
    /\ Len(generated) = 2
    /\ RateLimited(generated[1])
    /\ OtherError(generated[2])
    /\ Len(slept) = 1

\* C5: a chat request made while there is no session (BOOK_TEXT is empty, as before
\* any upload) gets the guidance reply, with no embedder call and no generation call.
NoSessionGuidance ==
    (chat_pc # "idle" /\ BOOK_TEXT = <<>>) =>
        /\ chat_pc = "respond"
        /\ chat_response = [reply |-> <<"Please upload a book or website first.">>]
        /\ embed_calls = 0
        /\ generated = <<>>

NoSessionGuidanceReached ==
    /\ chat_pc = "respond"
    /\ BOOK_TEXT = <<>>
    /\ BOOK_CHUNKS = <<>>
    /\ chat.character = "Alice"
    /\ reply = Guidance

\* C6: the chunks and the embeddings a chat request reads in semantic_search have
\* the same length.
ReaderSeesOneSession ==
    chat_pc = "search" => Len(BOOK_CHUNKS) = Len(BOOK_EMBEDDINGS)

\* C7: when an upload of a document has succeeded, the history has exactly the
\* detected names as keys and every log is empty.
UploadResetsHistory ==
    upload_pc = "respond" =>
        /\ DOMAIN CHAT_HISTORY = final_characters
        /\ \A c \in DOMAIN CHAT_HISTORY : CHAT_HISTORY[c] = <<>>

UploadDiscardsTurns ==
    /\ upload_pc = "respond"
    /\ \E c \in final_characters :
        /\ c \in DOMAIN upload_before.history
        /\ upload_before.history[c] # <<>>
        /\ CHAT_HISTORY[c] = <<>>

\* C8: the history of the prompt is the rendering of the last min(5, n) turns of
\* the character's log of n turns, oldest first, and the n turns stay in the log.
PromptUsesLastFive ==
    (chat_pc \in {"generate", "append"} \/ (chat_pc = "respond" /\ generated # <<>>)) =>
        LET log == LogOf(chat_before, chat.character)
            n == Len(log)
            w == IF n < 5 THEN n ELSE 5
        IN  /\ history = render_history(chat.character, [j \in 1..w |-> log[n - w + j]])
            /\ prompt.history = history
            /\ Len(LogOf(CHAT_HISTORY, chat.character)) >= n
            /\ SubSeq(LogOf(CHAT_HISTORY, chat.character), 1, n) = log

PromptAfterSevenTurns ==
    /\ chat_pc = "generate"
    /\ Len(LogOf(chat_before, chat.character)) = 7
    /\ chat_before[chat.character][2].user # chat_before[chat.character][3].user
    /\ chat_before[chat.character][7].user # chat_before[chat.character][6].user
    /\ Len(LogOf(CHAT_HISTORY, chat.character)) = 7

\* C9: a chat request with a session appends the turn (message, reply) to the end of
\* its character's log exactly when it returns a non-empty reply; then the earlier
\* turns and the other logs are as before; otherwise the history is unchanged.
ChatAppendsIffReply ==
    /\ (chat_pc \in {"search", "generate", "append", "raised"}) => CHAT_HISTORY = chat_before
    /\ (chat_pc = "respond" /\ BOOK_TEXT # <<>> /\ reply = <<>>) => CHAT_HISTORY = chat_before
    /\ (chat_pc = "respond" /\ BOOK_TEXT # <<>> /\ reply # <<>>) =>
        /\ DOMAIN CHAT_HISTORY = DOMAIN chat_before
        /\ chat.character \in DOMAIN chat_before
        /\ \A c \in DOMAIN chat_before : c # chat.character => CHAT_HISTORY[c] = chat_before[c]
        /\ Len(CHAT_HISTORY[chat.character]) = Len(chat_before[chat.character]) + 1
        /\ SubSeq(CHAT_HISTORY[chat.character], 1, Len(chat_before[chat.character])) = chat_before[chat.character]
        /\ CHAT_HISTORY[chat.character][Len(CHAT_HISTORY[chat.character])] = [user |-> chat.message, ai |-> reply]

ChatAppendedSecondTurn ==
    /\ chat_pc = "respond"
    /\ BOOK_TEXT # <<>>
    /\ reply # <<>>
    /\ chat.character \in DOMAIN chat_before
    /\ Len(chat_before[chat.character]) = 1
    /\ Len(CHAT_HISTORY[chat.character]) = 2
    /\ \E c \in DOMAIN chat_before : c # chat.character /\ CHAT_HISTORY[c] = chat_before[c]

\* the order of the claim: descending similarity, equal similarities by lower index
StableDescending(sims) ==
    CHOOSE p \in IndexOrders(Len(sims)) :
        \A a, b \in 1..Len(sims) : a < b =>
            \/ SimLess(sims[p[b]], sims[p[a]])
            \/ (~SimLess(sims[p[a]], sims[p[b]]) /\ p[a] < p[b])

\* C10: semantic_search with top_k = k over n chunks returns min(k, n) chunks in
\* descending similarity, equal similarities by lower index; on an empty index it
\* returns the empty sequence without calling the embedder.
SearchStableTopK ==
    (probe_pc = "done" /\ probe_result.error # "EmbeddingError") =>
        IF BOOK_EMBEDDINGS = <<>>
        THEN probe_result = [error |-> "", chunks |-> <<>>, embed_calls |-> 0]
        ELSE LET n == Len(BOOK_CHUNKS)
                 m == IF probe.top_k < n THEN probe.top_k ELSE n
                 order == StableDescending(cosine_similarity(embed_text(probe.query), BOOK_EMBEDDINGS))
             IN  /\ probe_result.error = ""
                 /\ probe_result.chunks = [j \in 1..m |-> BOOK_CHUNKS[order[j]]]

====
